---- MODULE Spec2Model ----
(***************************************************************************)
(* A model of the ragchat retrieval core: RAGSystem (src/app/rag.py), its  *)
(* embedding gateway MistralEmbeddings (src/app/embeddings.py) and the     *)
(* DocumentProcessor of src/app/ingestion.py.                              *)
(*                                                                         *)
(* Abstractions.  Texts are a few sample strings, the empty one among      *)
(* them.  A vector is a sequence of numbers, a numpy matrix the sequence   *)
(* of its rows, and row positions are 1-based.  A stored chunk is a        *)
(* record [text, filename, py] where py says whether the Python object is  *)
(* a tuple (as built by add_documents) or a list (as np.load(..).tolist()  *)
(* returns it).  An artifact on disk is [exists, data].  A sentence is its *)
(* length in characters; a chunk's content is the sequence of the input    *)
(* positions of its sentences.                                             *)
(***************************************************************************)
EXTENDS Integers, Sequences, FiniteSets, TLC

VARIABLES
    index,          \* RAGSystem.index: the rows of the faiss IndexFlatL2
    chunks,         \* RAGSystem.chunks: the list of (text, filename)
    indexFile,      \* the artifact at index_path
    chunksFile,     \* the artifact at chunks_path (chunks.npy)
    origin,         \* which branch of RAGSystem.__init__ built the live object
    last,           \* the last RAGSystem call: its arguments and its outcome
    chunk_size,     \* DocumentProcessor.chunk_size
    chunk_overlap,  \* DocumentProcessor.chunk_overlap
    ret             \* the last DocumentProcessor call: arguments and outcome

vars == <<index, chunks, indexFile, chunksFile, origin, last,
          chunk_size, chunk_overlap, ret>>

ragVars == <<index, chunks, indexFile, chunksFile, origin, last>>
ingestVars == <<chunk_size, chunk_overlap, ret>>

----------------------------------------------------------------------------
(* Bounds of the model *)

MaxVectors == 2
MaxK == 3
Dim == 2
MaxSentences == 3
MaxSentenceLen == 3
MaxBudget == 3
MaxFiles == 3

(* Program constants *)

CHUNK_SIZE == 10
CHUNK_OVERLAP == 2
DefaultK == 3

EmptyText == ""
Texts == {"", "alpha", "beta"}
Filenames == {"a.md", "b.md"}
Queries == {"", "alpha"}

Min(a, b) == IF a <= b THEN a ELSE b

SeqsUpTo(S, n) == UNION {[1..m -> S] : m \in 0..n}

----------------------------------------------------------------------------
(* The embedding gateway: src/app/embeddings.py *)

\* What the provider returns for a non-empty text when it answers: a vector
\* of the configured dimension, a different one for each text.
TextCode(t) == IF t = "alpha" THEN 1 ELSE 2
ProviderVector(t) ==
    [i \in 1..Dim |-> IF i = 1 THEN TextCode(t) ELSE TextCode(t) * TextCode(t)]

get_text_embedding(t, resp) ==
    IF t = EmptyText
    THEN [raised |-> FALSE, value |-> <<>>]
    ELSE IF resp = "error"
    THEN [raised |-> TRUE, value |-> <<>>]
    ELSE [raised |-> FALSE, value |-> ProviderVector(t)]

\* embed_texts: one get_text_embedding per text, in order; the first raise
\* propagates.  The value is the list handed to np.array.
embed_texts(texts, resps) ==
    LET rows == [i \in 1..Len(texts) |-> get_text_embedding(texts[i], resps[i])]
    IN  IF texts = <<>>
        THEN [raised |-> FALSE, value |-> <<>>]
        ELSE IF \E i \in 1..Len(texts) : rows[i].raised
        THEN [raised |-> TRUE, value |-> <<>>]
        ELSE [raised |-> FALSE, value |-> [i \in 1..Len(texts) |-> rows[i].value]]

embed_query(t, resp) ==
    LET e == get_text_embedding(t, resp)
    IN  IF e.raised
        THEN [raised |-> TRUE, value |-> <<>>]
        ELSE [raised |-> FALSE, value |-> <<e.value>>]

----------------------------------------------------------------------------
(* The faiss index *)

\* index.add(x) and index.search(x, k) take an n x d float matrix with
\* d = index.d.  A ragged list (np.array raises or yields an object array,
\* by numpy version) and a matrix of another width are both refused before
\* anything is stored.
MatrixAccepted(rows) == \A i \in 1..Len(rows) : Len(rows[i]) = Dim

IndexAdd(idx, rows) == idx \o rows

\* The squared L2 distance of two vectors of the index's dimension.
RECURSIVE SumSq(_, _, _)
SumSq(u, v, i) ==
    IF i = 0 THEN 0 ELSE (u[i] - v[i]) * (u[i] - v[i]) + SumSq(u, v, i - 1)

SqDist(u, v) == SumSq(u, v, Dim)

\* The position of the nearest row not in `used` (ties: the lower position),
\* -1 when every row is used; dist[i] is the distance of row i to the query.
Nearest(dist, used) ==
    LET free == (DOMAIN dist) \ used
    IN  IF free = {} THEN -1
        ELSE CHOOSE i \in free :
               \A j \in free : dist[i] < dist[j] \/ (dist[i] = dist[j] /\ i <= j)

\* k result slots holding 0-based positions by ascending distance, the slots
\* with no neighbour holding -1.
RECURSIVE SearchSlots(_, _, _)
SearchSlots(dist, k, used) ==
    IF k = 0 THEN <<>>
    ELSE LET n == Nearest(dist, used)
         IN  IF n = -1
             THEN <<-1>> \o SearchSlots(dist, k - 1, used)
             ELSE <<n - 1>> \o SearchSlots(dist, k - 1, used \cup {n})

\* index.search(q, k)[1][0]
IndexSearch(idx, q, k) ==
    LET dist == CHOOSE d \in {[i \in 1..Len(idx) |-> SqDist(idx[i], q)]} : TRUE
    IN  SearchSlots(dist, k, {})

----------------------------------------------------------------------------
(* Persistence *)

NoFile == [exists |-> FALSE, data |-> <<>>]

\* np.array(self.chunks, dtype=object): an n x 2 object array; its rows keep
\* the two strings and lose the tuple.
ChunksArray(cs) == [i \in 1..Len(cs) |-> <<cs[i].text, cs[i].filename>>]

\* np.load(chunks_path, allow_pickle=True).tolist(): a list of 2-element lists.
ChunksToList(arr) ==
    [i \in 1..Len(arr) |-> [text |-> arr[i][1], filename |-> arr[i][2], py |-> "list"]]

WriteIndex(idx) == [exists |-> TRUE, data |-> idx]
WriteChunks(cs) == [exists |-> TRUE, data |-> ChunksArray(cs)]

\* save_index as it would be if the chunk store were not written.
save_index_IndexOnly(idx, cs, oldIndexFile, oldChunksFile, disk) ==
    IF disk = "index_fails"
    THEN [raised |-> TRUE, indexFile |-> oldIndexFile, chunksFile |-> oldChunksFile]
    ELSE [raised |-> disk # "ok", indexFile |-> WriteIndex(idx),
          chunksFile |-> oldChunksFile]

\* save_index: makedirs, faiss.write_index, np.save, in this order; a step
\* that raises leaves the later ones undone.  `disk` is what the environment
\* lets through: "ok", "index_fails" (makedirs or write_index raises) or
\* "chunks_fail" (np.save raises).
save_index(idx, cs, oldIndexFile, oldChunksFile, disk) ==
    IF disk = "index_fails"
    THEN [raised |-> TRUE, indexFile |-> oldIndexFile, chunksFile |-> oldChunksFile]
    ELSE IF disk = "chunks_fail"
    THEN [raised |-> TRUE, indexFile |-> WriteIndex(idx), chunksFile |-> oldChunksFile]
    ELSE [raised |-> FALSE, indexFile |-> WriteIndex(idx), chunksFile |-> WriteChunks(cs)]

----------------------------------------------------------------------------
(* RAGSystem: src/app/rag.py *)

\* RAGSystem.__init__: load both artifacts when both exist, else start empty.
RAGSystemInit(iF, cF) ==
    IF iF.exists /\ cF.exists
    THEN [index |-> iF.data, chunks |-> ChunksToList(cF.data), origin |-> "loaded"]
    ELSE [index |-> <<>>, chunks |-> <<>>, origin |-> "fresh"]

\* add_documents as it would be if it stored one entry per call.
ExtendChunks_OnePerCall(cs, texts, filename) ==
    Append(cs, [text |-> texts[1], filename |-> filename, py |-> "tuple"])

\* add_documents as it would be if it stored the pairs in reverse order.
ExtendChunks_Reversed(cs, texts, filename) ==
    cs \o [i \in 1..Len(texts) |->
             [text |-> texts[Len(texts) + 1 - i], filename |-> filename,
              py |-> "tuple"]]

\* self.chunks.extend([(text, filename) for text in texts])
ExtendChunks(cs, texts, filename) ==
    cs \o [i \in 1..Len(texts) |->
             [text |-> texts[i], filename |-> filename, py |-> "tuple"]]

\* The provider calls embed_texts makes: one per non-empty text, up to and
\* including the first one that raises.
ProviderCalls(texts, resps) ==
    LET stop == IF \E i \in 1..Len(texts) : texts[i] # EmptyText /\ resps[i] = "error"
                THEN CHOOSE i \in 1..Len(texts) :
                       /\ texts[i] # EmptyText /\ resps[i] = "error"
                       /\ \A j \in 1..(i - 1) : ~(texts[j] # EmptyText /\ resps[j] = "error")
                ELSE Len(texts)
    IN  Cardinality({i \in 1..stop : texts[i] # EmptyText})

\* add_documents as it would be without its test for an empty batch.
add_documents_NoEmptyCheck(idx, cs, iF, cF, texts, filename, resps, disk) ==
    LET emb == embed_texts(texts, resps)
        stop(r, calls) ==
            [raised |-> r, index |-> idx, chunks |-> cs, indexFile |-> iF,
             chunksFile |-> cF, providerCalls |-> calls, saveCalled |-> FALSE]
    IN  IF emb.raised THEN stop(TRUE, ProviderCalls(texts, resps))
        ELSE IF ~MatrixAccepted(emb.value) THEN stop(TRUE, ProviderCalls(texts, resps))
        ELSE LET idx2 == IndexAdd(idx, emb.value)
                 cs2 == ExtendChunks(cs, texts, filename)
                 sv == save_index(idx2, cs2, iF, cF, disk)
             IN  [raised |-> sv.raised, index |-> idx2, chunks |-> cs2,
                  indexFile |-> sv.indexFile, chunksFile |-> sv.chunksFile,
                  providerCalls |-> ProviderCalls(texts, resps), saveCalled |-> TRUE]

\* add_documents as it would be if it stored each (text, filename) pair
\* before asking for the embeddings.
add_documents_StoresBeforeEmbedding(idx, cs, iF, cF, texts, filename, resps, disk) ==
    LET emb == embed_texts(texts, resps)
        cs2 == ExtendChunks(cs, texts, filename)
        stop(r, store, calls) ==
            [raised |-> r, index |-> idx, chunks |-> store, indexFile |-> iF,
             chunksFile |-> cF, providerCalls |-> calls, saveCalled |-> FALSE]
    IN  IF texts = <<>> THEN stop(FALSE, cs, 0)
        ELSE IF emb.raised THEN stop(TRUE, cs2, ProviderCalls(texts, resps))
        ELSE IF ~MatrixAccepted(emb.value)
        THEN stop(TRUE, cs2, ProviderCalls(texts, resps))
        ELSE LET idx2 == IndexAdd(idx, emb.value)
                 sv == save_index(idx2, cs2, iF, cF, disk)
             IN  [raised |-> sv.raised, index |-> idx2, chunks |-> cs2,
                  indexFile |-> sv.indexFile, chunksFile |-> sv.chunksFile,
                  providerCalls |-> ProviderCalls(texts, resps), saveCalled |-> TRUE]

\* add_documents(texts, filename) on the state (idx, cs, iF, cF), with the
\* provider answering resps[i] for texts[i] and the storage behaving as disk.
add_documents(idx, cs, iF, cF, texts, filename, resps, disk) ==
    LET emb == embed_texts(texts, resps)
        stop(r, calls) ==
            [raised |-> r, index |-> idx, chunks |-> cs, indexFile |-> iF,
             chunksFile |-> cF, providerCalls |-> calls, saveCalled |-> FALSE]
    IN  IF texts = <<>> THEN stop(FALSE, 0)
        ELSE IF emb.raised THEN stop(TRUE, ProviderCalls(texts, resps))
        ELSE IF ~MatrixAccepted(emb.value) THEN stop(TRUE, ProviderCalls(texts, resps))
        ELSE LET idx2 == IndexAdd(idx, emb.value)
                 cs2 == ExtendChunks(cs, texts, filename)
                 sv == save_index(idx2, cs2, iF, cF, disk)
             IN  [raised |-> sv.raised, index |-> idx2, chunks |-> cs2,
                  indexFile |-> sv.indexFile, chunksFile |-> sv.chunksFile,
                  providerCalls |-> ProviderCalls(texts, resps), saveCalled |-> TRUE]

\* self.chunks[idx] for a faiss position idx, which may be negative.
PyIndex(cs, i) == IF i >= 0 THEN cs[i + 1] ELSE cs[Len(cs) + i + 1]

\* retrieve_relevant_chunks(query, k).  zeroK is what faiss does with k = 0:
\* "refused" (its wrapper asserts k > 0) or "empty" (older wrappers).
retrieve_relevant_chunks(idx, cs, query, k, resp, zeroK) ==
    LET q == embed_query(query, resp)
        stop(r) == [raised |-> r, result |-> <<>>, slots |-> <<>>]
    IN  IF cs = <<>> THEN stop(FALSE)
        ELSE IF q.raised THEN stop(TRUE)
        ELSE IF ~MatrixAccepted(q.value) THEN stop(TRUE)
        ELSE IF k = 0 /\ zeroK = "refused" THEN stop(TRUE)
        ELSE LET slots == IndexSearch(idx, q.value[1], k)
                 valid == SelectSeq(slots, LAMBDA s : s < Len(cs))
             IN  [raised |-> FALSE,
                  result |-> [i \in 1..Len(valid) |->
                                [text |-> PyIndex(cs, valid[i]).text,
                                 filename |-> PyIndex(cs, valid[i]).filename,
                                 py |-> "tuple"]],
                  slots |-> slots]

CannedAnswer == "no relevant information"

\* generate_response as it would be without its test for an empty retrieval.
generate_response_NoEmptyCheck(idx, cs, query, max_tokens, resp, llm) ==
    LET r == retrieve_relevant_chunks(idx, cs, query, DefaultK, resp, "refused")
    IN  IF r.raised
        THEN [raised |-> TRUE, answer |-> "", sources |-> <<>>, llmCalled |-> FALSE]
        ELSE IF llm = "error"
        THEN [raised |-> TRUE, answer |-> "", sources |-> <<>>, llmCalled |-> TRUE]
        ELSE [raised |-> FALSE, answer |-> "completion",
              sources |-> [i \in 1..Len(r.result) |->
                             [filename |-> r.result[i].filename,
                              text |-> r.result[i].text]],
              llmCalled |-> TRUE]

\* generate_response(query, max_tokens); llm is the completion provider's
\* behaviour when it is called.  max_tokens is not used by the code.
generate_response(idx, cs, query, max_tokens, resp, llm) ==
    LET r == retrieve_relevant_chunks(idx, cs, query, DefaultK, resp, "refused")
    IN  IF r.raised
        THEN [raised |-> TRUE, answer |-> "", sources |-> <<>>, llmCalled |-> FALSE]
        ELSE IF r.result = <<>>
        THEN [raised |-> FALSE, answer |-> CannedAnswer, sources |-> <<>>,
              llmCalled |-> FALSE]
        ELSE IF llm = "error"
        THEN [raised |-> TRUE, answer |-> "", sources |-> <<>>, llmCalled |-> TRUE]
        ELSE [raised |-> FALSE, answer |-> "completion",
              sources |-> [i \in 1..Len(r.result) |->
                             [filename |-> r.result[i].filename,
                              text |-> r.result[i].text]],
              llmCalled |-> TRUE]

----------------------------------------------------------------------------
(* The RAGSystem as a state machine *)

ProviderResponses == {"ok", "error"}

\* The provider's answers to one embed_texts call: it fails on the call for
\* texts[failAt] (no call follows a failed one), or on none when failAt = 0.
ProviderFailingAt(texts, failAt) ==
    [i \in 1..Len(texts) |-> IF i = failAt THEN "error" ELSE "ok"]
DiskOutcomes == {"ok", "index_fails", "chunks_fail"}

\* `last` and `ret` are records whose first field, op, names the call; the
\* other fields depend on the call.
NoCall == [op |-> "none"]

Init ==
    /\ index = <<>>
    /\ chunks = <<>>
    /\ indexFile = NoFile
    /\ chunksFile = NoFile
    /\ origin = "fresh"
    /\ last = NoCall
    /\ chunk_size = CHUNK_SIZE
    /\ chunk_overlap = CHUNK_OVERLAP
    /\ ret = NoCall

\* A new process constructs RAGSystem() over the same index_path.
Construct ==
    LET r == RAGSystemInit(indexFile, chunksFile)
    IN  /\ index' = r.index
        /\ chunks' = r.chunks
        /\ origin' = r.origin
        /\ last' = [op |-> "__init__"]
        /\ UNCHANGED <<indexFile, chunksFile, ingestVars>>

AddDocuments ==
    \E texts \in SeqsUpTo(Texts, MaxVectors - Len(index)), f \in Filenames :
      \E failAt \in {j \in 0..Len(texts) : j > 0 => texts[j] # EmptyText} :
        \* the storage can only misbehave in a call that reaches save_index
        \E disk \in IF add_documents(index, chunks, indexFile, chunksFile, texts, f,
                                     ProviderFailingAt(texts, failAt), "ok").saveCalled
                     THEN DiskOutcomes ELSE {"ok"} :
          \E r \in {add_documents(index, chunks, indexFile, chunksFile, texts, f,
                                  ProviderFailingAt(texts, failAt), disk)} :
            /\ index' = r.index
            /\ chunks' = r.chunks
            /\ indexFile' = r.indexFile
            /\ chunksFile' = r.chunksFile
            /\ last' = [op |-> "add_documents", raised |-> r.raised,
                        texts |-> texts, filename |-> f,
                        envOk |-> (disk = "ok" /\ failAt = 0),
                        failAt |-> failAt,
                        providerCalls |-> r.providerCalls,
                        saveCalled |-> r.saveCalled]
            /\ UNCHANGED <<origin, ingestVars>>

\* The environment of a query is drawn only as far as the call consults it:
\* the provider when the query is embedded, faiss's handling of k = 0 when
\* the search is reached, the completion provider when it is called.
RetrieveRelevantChunks ==
    \E query \in Queries, k \in 0..MaxK :
      \E resp \in IF chunks # <<>> /\ query # EmptyText
                   THEN ProviderResponses ELSE {"ok"} :
        \E zeroK \in IF k = 0 /\ chunks # <<>> /\ query # EmptyText /\ resp = "ok"
                      THEN {"refused", "empty"} ELSE {"refused"} :
          \E r \in {retrieve_relevant_chunks(index, chunks, query, k, resp, zeroK)} :
            /\ last' = [op |-> "retrieve_relevant_chunks", raised |-> r.raised,
                        query |-> query, k |-> k, result |-> r.result,
                        slots |-> r.slots]
            /\ UNCHANGED <<index, chunks, indexFile, chunksFile, origin, ingestVars>>

GenerateResponse ==
    \E query \in Queries, max_tokens \in {0, 512} :
      \E resp \in IF chunks # <<>> /\ query # EmptyText
                   THEN ProviderResponses ELSE {"ok"} :
        \E llm \in IF generate_response(index, chunks, query, max_tokens,
                                        resp, "ok").llmCalled
                    THEN {"ok", "error"} ELSE {"ok"} :
          \E r \in {generate_response(index, chunks, query, max_tokens, resp, llm)} :
            /\ last' = [op |-> "generate_response", raised |-> r.raised,
                        query |-> query,
                        answer |-> r.answer, sources |-> r.sources,
                        llmCalled |-> r.llmCalled]
            /\ UNCHANGED <<index, chunks, indexFile, chunksFile, origin, ingestVars>>

\* The store: construction and ingestion.
Next ==
    \/ Construct
    \/ AddDocuments

Spec == Init /\ [][Next]_vars

\* The store with its two read-only queries.
NextQuery ==
    \/ Construct
    \/ AddDocuments
    \/ RetrieveRelevantChunks
    \/ GenerateResponse

SpecQuery == Init /\ [][NextQuery]_vars

----------------------------------------------------------------------------
(* DocumentProcessor: src/app/ingestion.py *)

\* DocumentProcessor.__init__: `chunk_size or settings.CHUNK_SIZE`; an
\* argument of None or 0 selects the configured value.
OrDefault(arg, default) == IF arg = 0 THEN default ELSE arg

RECURSIVE SumLen(_, _)
SumLen(sent, positions) ==
    IF positions = <<>> THEN 0
    ELSE sent[Head(positions)] + SumLen(sent, Tail(positions))

\* len(' '.join(current_chunk))
JoinedLen(sent, positions) ==
    IF positions = <<>> THEN 0 ELSE SumLen(sent, positions) + Len(positions) - 1

\* The dictionary appended to chunks.  content is the sequence of the input
\* positions of the joined sentences; seed, which the code does not store, is
\* the number of overlap sentences the buffer started with.
MakeChunk(sent, current_chunk, seed) ==
    [content |-> current_chunk,
     size |-> JoinedLen(sent, current_chunk),
     num_sentences |-> Len(current_chunk),
     seed |-> seed]

\* The overlap loop as it would be if a sentence that exactly fills the
\* overlap budget were refused (< for <=).
RECURSIVE OverlapWalk_Strict(_, _, _, _, _, _)
OverlapWalk_Strict(sent, current_chunk, j, overlap_sentences, overlap_size, co) ==
    IF j = 0
    THEN [sentences |-> overlap_sentences, size |-> overlap_size]
    ELSE IF overlap_size + sent[current_chunk[j]] < co
    THEN OverlapWalk_Strict(sent, current_chunk, j - 1,
                            <<current_chunk[j]>> \o overlap_sentences,
                            overlap_size + sent[current_chunk[j]], co)
    ELSE [sentences |-> overlap_sentences, size |-> overlap_size]

\* for s in reversed(current_chunk): take s while it fits the overlap budget.
\* j is the position in current_chunk the walk is at.
RECURSIVE OverlapWalk(_, _, _, _, _, _)
OverlapWalk(sent, current_chunk, j, overlap_sentences, overlap_size, co) ==
    IF j = 0
    THEN [sentences |-> overlap_sentences, size |-> overlap_size]
    ELSE IF overlap_size + sent[current_chunk[j]] <= co
    THEN OverlapWalk(sent, current_chunk, j - 1,
                     <<current_chunk[j]>> \o overlap_sentences,
                     overlap_size + sent[current_chunk[j]], co)
    ELSE [sentences |-> overlap_sentences, size |-> overlap_size]

\* The loop of create_chunks over sentences i..Len(sent), then the final flush.
RECURSIVE ChunkLoop(_, _, _, _, _, _, _, _)
ChunkLoop(sent, i, out, current_chunk, current_size, seed, cs, co) ==
    IF i > Len(sent)
    THEN IF current_chunk # <<>>
         THEN Append(out, MakeChunk(sent, current_chunk, seed))
         ELSE out
    ELSE IF current_size + sent[i] > cs /\ current_chunk # <<>>
    THEN LET ov == OverlapWalk(sent, current_chunk, Len(current_chunk), <<>>, 0, co)
         IN  ChunkLoop(sent, i + 1,
                       Append(out, MakeChunk(sent, current_chunk, seed)),
                       Append(ov.sentences, i), ov.size + sent[i],
                       Len(ov.sentences), cs, co)
    ELSE ChunkLoop(sent, i + 1, out, Append(current_chunk, i),
                   current_size + sent[i], seed, cs, co)

\* create_chunks on a text whose sentences (split_by_sentences) have the
\* lengths sent[1], sent[2], ...
create_chunks(sent, cs, co) == ChunkLoop(sent, 1, <<>>, <<>>, 0, 0, cs, co)

\* rag_system.add_documents(chunks): the call names no filename, which
\* add_documents requires, so Python raises TypeError before the body runs.
CallAddDocumentsWithoutFilename(idx, cs, iF, cF, texts) ==
    [raised |-> TRUE, index |-> idx, chunks |-> cs, indexFile |-> iF,
     chunksFile |-> cF]

\* process_and_index(content, rag_system) on the store (idx, cs, iF, cF);
\* rag says whether a RAGSystem is passed.  Any exception is re-raised.
process_and_index(sent, rag, csz, cov, idx, cs, iF, cF) ==
    LET made == create_chunks(sent, csz, cov)
        call == CallAddDocumentsWithoutFilename(idx, cs, iF, cF, made)
    IN  IF rag
        THEN [raised |-> call.raised, chunks |-> IF call.raised THEN <<>> ELSE made,
              index |-> call.index, store |-> call.chunks,
              indexFile |-> call.indexFile, chunksFile |-> call.chunksFile]
        ELSE [raised |-> FALSE, chunks |-> made, index |-> idx, store |-> cs,
              indexFile |-> iF, chunksFile |-> cF]

\* len("Source: " + path) for the sample paths, which have four characters.
SourcePrefixLen == 8 + 4

\* f"Source: {file_path}\n\n{content}" after preprocess_markdown and
\* split_by_sentences: the prefix ends in no sentence boundary, so it joins
\* the first sentence of the content, or is the only sentence.
PrependSource(sent) ==
    IF sent = <<>> THEN <<SourcePrefixLen>>
    ELSE <<SourcePrefixLen + 1 + Head(sent)>> \o Tail(sent)

\* process_file(file_path, rag_system): the number of chunks, or a raise
\* when the file cannot be read or process_and_index raises.
process_file(file, rag, csz, cov, idx, cs, iF, cF) ==
    LET r == process_and_index(PrependSource(file.sentences), rag, csz, cov,
                               idx, cs, iF, cF)
    IN  IF ~file.readable
        THEN [raised |-> TRUE, count |-> 0]
        ELSE [raised |-> r.raised, count |-> Len(r.chunks)]

EmptyReport(n) ==
    [total_files |-> n, processed_files |-> 0, total_chunks |-> 0,
     failed_files |-> <<>>]

\* batch_process_directory as it would be if the first failing file ended
\* the loop.
RECURSIVE BatchLoop_StopsAtFailure(_, _, _, _, _, _, _, _, _, _)
BatchLoop_StopsAtFailure(files, i, results, rag, csz, cov, idx, cs, iF, cF) ==
    IF i > Len(files) THEN results
    ELSE LET r == process_file(files[i], rag, csz, cov, idx, cs, iF, cF)
         IN  IF r.raised
             THEN [results EXCEPT !.failed_files = Append(@, i)]
             ELSE BatchLoop_StopsAtFailure(files, i + 1,
                      [results EXCEPT !.processed_files = @ + 1,
                                      !.total_chunks = @ + r.count],
                      rag, csz, cov, idx, cs, iF, cF)

\* The loop of batch_process_directory over files i..Len(files); a failed
\* file is recorded by its position i (its path) and the loop goes on.
RECURSIVE BatchLoop(_, _, _, _, _, _, _, _, _, _)
BatchLoop(files, i, results, rag, csz, cov, idx, cs, iF, cF) ==
    IF i > Len(files) THEN results
    ELSE LET r == process_file(files[i], rag, csz, cov, idx, cs, iF, cF)
         IN  BatchLoop(files, i + 1,
                 IF r.raised
                 THEN [results EXCEPT !.failed_files = Append(@, i)]
                 ELSE [results EXCEPT !.processed_files = @ + 1,
                                      !.total_chunks = @ + r.count],
                 rag, csz, cov, idx, cs, iF, cF)

\* batch_process_directory(directory, rag_system); enumerated is whether
\* find_markdown_files returned the files (else it raised, and so does the call).
batch_process_directory(files, enumerated, rag, csz, cov, idx, cs, iF, cF) ==
    IF ~enumerated
    THEN [raised |-> TRUE, report |-> EmptyReport(0)]
    ELSE [raised |-> FALSE,
          report |-> BatchLoop(files, 1, EmptyReport(Len(files)), rag, csz, cov,
                               idx, cs, iF, cF)]

----------------------------------------------------------------------------
(* The DocumentProcessor as a state machine *)

SentenceSeqs == SeqsUpTo(1..MaxSentenceLen, MaxSentences)

\* The documents given to process_and_index and held by the files of a
\* batch: an empty one, one of one sentence and one of two sentences.
Documents == {<<>>, <<3>>, <<6, 7>>}

\* The files of a directory: the readable ones, and one that cannot be read.
Files ==
    [readable : {TRUE}, sentences : Documents]
        \cup {[readable |-> FALSE, sentences |-> <<>>]}

\* DocumentProcessor(chunk_size, chunk_overlap) beside an empty store.
InitChunker ==
    /\ index = <<>>
    /\ chunks = <<>>
    /\ indexFile = NoFile
    /\ chunksFile = NoFile
    /\ origin = "fresh"
    /\ last = NoCall
    /\ \E a, b \in 0..MaxBudget :
         /\ chunk_size = OrDefault(a, CHUNK_SIZE)
         /\ chunk_overlap = OrDefault(b, CHUNK_OVERLAP)
    /\ ret = NoCall

CreateChunks ==
    \E sent \in SentenceSeqs :
        /\ ret' = [op |-> "create_chunks", sentences |-> sent,
                   chunks |-> create_chunks(sent, chunk_size, chunk_overlap)]
        /\ UNCHANGED <<ragVars, chunk_size, chunk_overlap>>

NextChunker == CreateChunks

SpecChunker == InitChunker /\ [][NextChunker]_vars

ProcessAndIndex ==
    \E sent \in Documents, rag \in BOOLEAN :
      \E r \in {process_and_index(sent, rag, chunk_size, chunk_overlap,
                                  index, chunks, indexFile, chunksFile)} :
        /\ index' = r.index
        /\ chunks' = r.store
        /\ indexFile' = r.indexFile
        /\ chunksFile' = r.chunksFile
        /\ ret' = [op |-> "process_and_index", rag |-> rag, raised |-> r.raised,
                   sentences |-> sent, chunks |-> r.chunks, before |-> Len(chunks)]
        /\ UNCHANGED <<origin, last, chunk_size, chunk_overlap>>

BatchProcessDirectory ==
    \E files \in SeqsUpTo(Files, MaxFiles), rag \in BOOLEAN :
      \* a failed enumeration yields no files
      \E enumerated \in IF files = <<>> THEN BOOLEAN ELSE {TRUE} :
      \E r \in {batch_process_directory(files, enumerated, rag, chunk_size,
                    chunk_overlap, index, chunks, indexFile, chunksFile)} :
        /\ ret' = [op |-> "batch_process_directory", rag |-> rag,
                   enumerated |-> enumerated, files |-> files,
                   raised |-> r.raised, report |-> r.report]
        /\ UNCHANGED <<ragVars, chunk_size, chunk_overlap>>

\* A DocumentProcessor() with the configured budgets, beside an empty store.
NextIngest ==
    \/ ProcessAndIndex
    \/ BatchProcessDirectory

SpecIngest == Init /\ [][NextIngest]_vars

----------------------------------------------------------------------------
(* Properties of the store *)

\* The (text, filename) contents of a chunk store, whatever Python sequence
\* type holds each pair.
Contents(cs) == [i \in 1..Len(cs) |-> <<cs[i].text, cs[i].filename>>]

\* C1: in a RAGSystem that started empty, after any sequence of completed
\* add_documents calls (returned or raised) the index holds as many vectors
\* as the chunk store holds entries.
C1_IndexChunkParity ==
    origin = "fresh" => Len(index) = Len(chunks)

\* C1 witness: a call that raised in save_index after a call that returned.
C1_Witness ==
    /\ origin = "fresh"
    /\ last.op = "add_documents" /\ last.raised /\ last.saveCalled
    /\ Len(last.texts) < Len(index)
    /\ Len(index) = Len(chunks)

\* C2: in a RAGSystem that started empty, after every add_documents call row
\* i of the index is the embedding of the text of chunk-store entry i; the
\* entries of earlier calls keep position and content; the new entries are
\* the (text, filename) pairs of the call in the order of its texts.
C2_PositionalCorrespondence ==
    [][(origin' = "fresh" /\ last'.op = "add_documents") =>
          /\ Len(index') = Len(chunks')
          /\ \A i \in 1..Len(chunks') : index'[i] = ProviderVector(chunks'[i].text)
          /\ Len(chunks') >= Len(chunks)
          /\ \A i \in 1..Len(chunks) : chunks'[i] = chunks[i] /\ index'[i] = index[i]
          /\ Len(chunks') > Len(chunks) =>
               /\ Len(chunks') = Len(chunks) + Len(last'.texts)
               /\ \A i \in 1..Len(last'.texts) :
                    /\ chunks'[Len(chunks) + i].text = last'.texts[i]
                    /\ chunks'[Len(chunks) + i].filename = last'.filename
      ]_vars

\* C2 witness: a second call has stored another text under another filename
\* behind the entry of the first call.
C2_Witness ==
    /\ origin = "fresh"
    /\ last.op = "add_documents" /\ ~last.raised /\ Len(last.texts) = 1
    /\ Len(chunks) = 2
    /\ chunks[1].text # chunks[2].text
    /\ chunks[1].filename # chunks[2].filename

\* C4 (as claimed): a RAGSystem built by loading the two artifacts never has
\* an index count different from the length of its chunk store.
C4_LoadNeverInconsistent ==
    origin = "loaded" => Len(index) = Len(chunks)

\* C5: when add_documents with a non-empty batch returns, the two artifacts
\* hold the index and the chunk store of that moment, and a RAGSystem
\* constructed from them loads the same vectors and the same chunk contents
\* in the same order.
C5_PersistedEqualsMemory ==
    (last.op = "add_documents" /\ ~last.raised /\ last.texts # <<>>) =>
        /\ indexFile.exists /\ indexFile.data = index
        /\ chunksFile.exists /\ chunksFile.data = Contents(chunks)
        /\ LET r == RAGSystemInit(indexFile, chunksFile)
           IN  /\ r.origin = "loaded"
               /\ r.index = index
               /\ Contents(r.chunks) = Contents(chunks)

\* C5 witness: a two-text batch has been added and saved.
C5_Witness ==
    /\ last.op = "add_documents" /\ ~last.raised /\ Len(last.texts) = 2
    /\ Len(chunks) = 2

\* C13: add_documents with an empty list of texts returns and does nothing:
\* index, chunk store and both artifacts are as before, the embedding
\* provider is not called and save_index is not invoked.
C13_EmptyBatchNoOp ==
    [][(last'.op = "add_documents" /\ last'.texts = <<>>) =>
          /\ ~last'.raised
          /\ index' = index
          /\ chunks' = chunks
          /\ indexFile' = indexFile
          /\ chunksFile' = chunksFile
          /\ last'.providerCalls = 0
          /\ ~last'.saveCalled
      ]_vars

\* C13 witness: an empty batch was given to a RAGSystem that holds a chunk in
\* memory and whose chunk artifact was never written (its save had failed).
C13_Witness ==
    /\ last.op = "add_documents" /\ last.texts = <<>>
    /\ Len(chunks) = 1
    /\ indexFile.exists /\ ~chunksFile.exists

\* The embedding matrix of a batch when the provider answers every text.
BatchMatrix(texts) == embed_texts(texts, ProviderFailingAt(texts, 0)).value

\* C14: when the embedding provider raises for a text of the batch, or the
\* index refuses the embedding matrix, add_documents raises, save_index is
\* not reached, and index, chunk store and both artifacts are as before the
\* call: no part of the batch is indexed or stored.
C14_FailureBeforePersistence ==
    [][(/\ last'.op = "add_documents" /\ last'.texts # <<>>
        /\ \/ last'.failAt > 0
           \/ ~MatrixAccepted(BatchMatrix(last'.texts))) =>
          /\ last'.raised
          /\ ~last'.saveCalled
          /\ index' = index
          /\ chunks' = chunks
          /\ indexFile' = indexFile
          /\ chunksFile' = chunksFile
      ]_vars

\* C14 witness: the provider embedded the first text of a batch of two and
\* raised for the second, beside an index artifact that holds a vector.
C14_Witness ==
    /\ last.op = "add_documents" /\ last.raised
    /\ Len(last.texts) = 2 /\ last.failAt = 2 /\ last.providerCalls = 2
    /\ index = <<>> /\ chunks = <<>>
    /\ indexFile.exists /\ indexFile.data # <<>>

\* C9 (as claimed): an add_documents call whose batch holds an empty text,
\* with provider and storage working, returns without raising and leaves no
\* entry for the empty text in the chunk store.
C9_EmptyTextSkipped ==
    (/\ last.op = "add_documents" /\ last.envOk
     /\ \E i \in 1..Len(last.texts) : last.texts[i] = EmptyText) =>
        /\ ~last.raised
        /\ \A i \in 1..Len(chunks) : chunks[i].text # EmptyText

----------------------------------------------------------------------------
(* Properties of the queries *)

\* The chunk-store position a faiss slot value selects (Python indexing).
PyPosition(cs, i) == IF i >= 0 THEN i + 1 ELSE Len(cs) + i + 1

\* C3 (as claimed): retrieve_relevant_chunks(query, k) on an index of n
\* vectors returns min(k, n) pairs, taken from distinct chunk-store positions.
C3_ResultCount ==
    (origin = "fresh" /\ last.op = "retrieve_relevant_chunks" /\ ~last.raised) =>
        LET taken == SelectSeq(last.slots, LAMBDA s : s < Len(chunks))
        IN  /\ Len(last.result) = Min(last.k, Len(index))
            /\ \A i, j \in 1..Len(taken) :
                 i # j => PyPosition(chunks, taken[i]) # PyPosition(chunks, taken[j])

\* C8: generate_response over an empty chunk store returns the canned answer
\* and no sources, and does not call the completion provider.
C8_EmptyStoreCannedAnswer ==
    (last.op = "generate_response" /\ chunks = <<>>) =>
        /\ ~last.raised
        /\ last.answer = CannedAnswer
        /\ last.sources = <<>>
        /\ ~last.llmCalled

\* C8 witness: generate_response has run on a RAGSystem that started empty
\* beside an index artifact left by a failed save.
C8_Witness ==
    /\ last.op = "generate_response" /\ chunks = <<>>
    /\ last.query # EmptyText
    /\ indexFile.exists

----------------------------------------------------------------------------
(* Properties of the DocumentProcessor *)

\* C6 (as claimed): process_and_index with a RAGSystem attached returns, and
\* on return index and chunk store have each grown by the number of chunks
\* returned.
C6_ProcessGrowsStore ==
    (ret.op = "process_and_index" /\ ret.rag) =>
        /\ ~ret.raised
        /\ Len(chunks) = ret.before + Len(ret.chunks)
        /\ Len(index) = ret.before + Len(ret.chunks)

\* What process_file does with file i of the last batch.
FileOutcome(i) ==
    process_file(ret.files[i], ret.rag, chunk_size, chunk_overlap,
                 index, chunks, indexFile, chunksFile)

RECURSIVE SumCounts(_)
SumCounts(n) ==
    IF n = 0 THEN 0
    ELSE SumCounts(n - 1) + (IF FileOutcome(n).raised THEN 0 ELSE FileOutcome(n).count)

\* C7: once the files are enumerated, batch_process_directory returns a
\* report: every file is either counted as processed or listed as failed,
\* whatever the files before it did, and total_chunks is the sum of the
\* chunk counts of the processed files.
C7_BatchReport ==
    (ret.op = "batch_process_directory" /\ ret.enumerated) =>
        LET rep == ret.report
            n == Len(ret.files)
            failing == {i \in 1..n : FileOutcome(i).raised}
        IN  /\ ~ret.raised
            /\ rep.total_files = n
            /\ rep.processed_files + Len(rep.failed_files) = rep.total_files
            /\ {rep.failed_files[j] : j \in 1..Len(rep.failed_files)} = failing
            /\ Len(rep.failed_files) = Cardinality(failing)
            /\ rep.processed_files = n - Cardinality(failing)
            /\ rep.total_chunks = SumCounts(n)

\* C7 witness: a batch in which a file failed and later files were processed.
C7_Witness ==
    /\ ret.op = "batch_process_directory" /\ ret.enumerated
    /\ Len(ret.files) = 3
    /\ ret.report.failed_files = <<1>>
    /\ ret.report.processed_files = 2
    /\ ret.report.total_chunks = 3

\* C10 (as claimed): a chunk that was not seeded with overlap sentences has
\* size (the length of its content, joining spaces included) at most
\* chunk_size, unless it is one sentence longer than chunk_size.
C10_UnseededChunkWithinBudget ==
    ret.op = "create_chunks" =>
        \A i \in 1..Len(ret.chunks) :
            LET c == ret.chunks[i]
            IN  c.seed = 0 =>
                  \/ c.size <= chunk_size
                  \/ c.num_sentences = 1 /\ ret.sentences[c.content[1]] > chunk_size

\* The last m sentences of a chunk's content.
Trailing(content, m) == SubSeq(content, Len(content) - m + 1, Len(content))

\* The sentences chunk `next` opens with before its first sentence that is
\* not in chunk `prev`: those at input positions up to the last one of prev.
LeadingShared(prev, next) ==
    SelectSeq(next.content, LAMBDA p : p <= prev.content[Len(prev.content)])

\* The longest run of trailing sentences of a chunk whose lengths add up to
\* at most the overlap budget.
LongestTrailingRun(sent, content, co) ==
    LET fits == {m \in 0..Len(content) : SumLen(sent, Trailing(content, m)) <= co}
    IN  Trailing(content, CHOOSE m \in fits : \A n \in fits : n <= m)

\* C11: with an overlap budget above 0, for consecutive chunks i, i+1 of
\* create_chunks the sentences chunk i+1 opens with before its first new
\* sentence are the longest run of trailing sentences of chunk i whose
\* lengths add up to at most the overlap budget, in their order; the run is
\* empty when the last sentence of chunk i alone exceeds the budget.
C11_OverlapIsLongestTrailingRun ==
    (ret.op = "create_chunks" /\ chunk_overlap > 0) =>
        \A i \in 1..(Len(ret.chunks) - 1) :
            LET prev == ret.chunks[i]
                next == ret.chunks[i + 1]
                run == LeadingShared(prev, next)
            IN  /\ run = LongestTrailingRun(ret.sentences, prev.content, chunk_overlap)
                /\ SubSeq(next.content, 1, Len(run)) = run
                /\ Len(next.content) > Len(run)
                /\ ret.sentences[prev.content[Len(prev.content)]] > chunk_overlap
                     => run = <<>>

\* C11 witness: a boundary where the overlap is a proper, non-empty part of
\* the closed chunk and fills the overlap budget.
C11_Witness ==
    /\ ret.op = "create_chunks" /\ chunk_overlap > 0
    /\ Len(ret.chunks) = 2
    /\ LET run == LeadingShared(ret.chunks[1], ret.chunks[2])
       IN  /\ run # <<>>
           /\ Len(run) < Len(ret.chunks[1].content)
           /\ SumLen(ret.sentences, run) = chunk_overlap

\* C12 (as claimed): a sentence longer than chunk_size, at whatever input
\* position and under whatever overlap budget, is alone in the chunk that
\* takes it in as a new sentence: that chunk has one sentence, that one.
C12_OversizedSentenceAlone ==
    ret.op = "create_chunks" =>
        \A p \in 1..Len(ret.sentences) :
            ret.sentences[p] > chunk_size =>
                \A i \in 1..Len(ret.chunks) :
                    LET c == ret.chunks[i]
                    IN  (\E j \in (c.seed + 1)..Len(c.content) : c.content[j] = p)
                            => c.num_sentences = 1 /\ c.content = <<p>>

====
